---- MODULE Spec2Model ----
(***************************************************************************)
(* StreamingDataFetcher (streaming-data.py): the lookup of one track on    *)
(* two catalog backends (Spotify, YouTube Music) and the assembly of the   *)
(* aggregate record.  The two backends are external: what a search         *)
(* answers (a value, or an exception) is an input of the model.            *)
(***************************************************************************)
EXTENDS Integers, Sequences, FiniteSets, TLC

VARIABLES
    yt,          \* self.yt: the YTMusic handle, or None
    ytInitFailed,\* history: the constructor's except branch (lines 33-36) ran
    pc,          \* "call": get_streaming_data is about to run; "return": it returned
    artist,      \* artist_name of the current call
    title,       \* track_title of the current call
    spResp,      \* outcome of self.sp.search for the current call
    ytResp,      \* outcome of self.yt.search for the current call, if it is issued
    spData,      \* what get_spotify_data returned in the call
    ytData,      \* what get_youtube_music_data returned in the call
    ytSearched,  \* whether the call issued self.yt.search
    data,        \* what get_streaming_data returned (Exception: it raised)
    first,       \* history: inputs and result of the first completed call
    intervened   \* history: a call with other inputs than the first has completed

vars == <<yt, ytInitFailed, pc, artist, title, spResp, ytResp, spData, ytData,
          ytSearched, data, first, intervened>>

----------------------------------------------------------------------------
(* Python values.  None, integers and dicts are records, so that any two   *)
(* of them can be compared; lists are sequences.                           *)

None == [NoneType |-> TRUE]

Exception == [Exception |-> TRUE]

EmptyDict == [k \in {} |-> k]

PyInt(n) == [int |-> n]

\* bool(v) for None, an int or a dict
Truthy(v) == v # None /\ v # EmptyDict /\ v # PyInt(0)

\* d.get(k)
Get(d, k) == IF k \in DOMAIN d THEN d[k] ELSE None

\* d.get(k) == v, for a string v
GetEq(d, k, v) == k \in DOMAIN d /\ d[k] = v

\* the outcome of a call on a backend client
Raise == [raise |-> "Exception"]

Return(v) == [return |-> v]

YTMusic == [client |-> "YTMusic"]

----------------------------------------------------------------------------
(* Bounds and input domains *)

MaxResults == 3

SearchLimit == 1

Queries == {<<"A1", "T1">>, <<"A2", "T1">>, <<"A1", "T2">>}

ViewCounts == {PyInt(0), PyInt(7)}

Popularities == {PyInt(0), PyInt(50)}

WithViews(s, v) ==
    [k \in DOMAIN s \cup {"views"} |-> IF k = "views" THEN v ELSE s[k]]

WithVideoId(s, id) ==
    [k \in DOMAIN s \cup {"videoId"} |-> IF k = "videoId" THEN id ELSE s[k]]

\* result entries of backend B, without their videoId; "views" may be absent
CandidatesNoViews ==
    [resultType : {"song", "video"},
     artists : {<<[name |-> "A1"]>>, <<[name |-> "A2"], [name |-> "A1"]>>},
     title : {"T1"}]

OddCandidates ==
    { [resultType |-> "song", artists |-> <<>>, title |-> "T1", views |-> PyInt(7)],
      [resultType |-> "song", artists |-> <<[name |-> "A1"]>>, title |-> "T2",
       views |-> PyInt(7)] }

\* a video's views count is only copied into the entry (line 97), never
\* tested: the videos come without a count or with one nonzero count
Candidates ==
    CandidatesNoViews
    \cup { c \in {WithViews(s, v) : s \in CandidatesNoViews, v \in ViewCounts} :
            c.resultType = "video" => c.views # PyInt(0) }
    \cup OddCandidates

VideoId(i) == "v" \o ToString(i)

\* a result list of backend B: the i-th entry carries videoId "v<i>"
ResultLists(cands, maxLen) ==
    UNION { { [i \in 1..n |-> WithVideoId(l[i], VideoId(i))] : l \in [1..n -> cands] }
            : n \in 0..maxLen }

YtResponses == {Raise} \cup {Return(l) : l \in ResultLists(Candidates, MaxResults)}

Tracks ==
    { [popularity |-> p,
       external_urls |-> [spotify |-> "https://open.spotify.com/track/s1"],
       album |-> [name |-> "Album", release_date |-> "1999-01-12"]]
      : p \in Popularities }

TrackLists == UNION { [1..n -> Tracks] : n \in 0..SearchLimit }

SpResponses ==
    {Raise, Return(None)} \cup {Return([tracks |-> [items |-> l]]) : l \in TrackLists}

MaxSeqResults == 1

\* the inputs of the calls that follow one another on one fetcher
SeqQueries == {<<"A1", "T1">>, <<"A2", "T1">>}

SeqCandidates ==
    { [resultType |-> "song", artists |-> <<[name |-> "A1"]>>, title |-> "T1",
       views |-> PyInt(7)],
      [resultType |-> "video", artists |-> <<[name |-> "A1"]>>, title |-> "T1"],
      [resultType |-> "song", artists |-> <<[name |-> "A2"]>>, title |-> "T2",
       views |-> PyInt(0)] }

SeqSpResponses ==
    {Raise, Return([tracks |-> [items |-> <<>>]])}
    \cup {Return([tracks |-> [items |-> <<t>>]]) : t \in {t \in Tracks : t.popularity = PyInt(50)}}

SeqYtResponses ==
    {Raise} \cup {Return(l) : l \in ResultLists(SeqCandidates, MaxSeqResults)}

----------------------------------------------------------------------------
(* get_spotify_data, lines 39-66 *)

\* the body of the try, lines 51-63: Exception when it raises
get_spotify_data_try(sp_search, artist_name, track_title) ==
    IF sp_search = Raise THEN Exception
    ELSE LET results == sp_search.return IN
         IF Truthy(results) /\ Len(results.tracks.items) > 0
         THEN LET track == results.tracks.items[1] IN
              IF {"popularity", "external_urls", "album"} \subseteq DOMAIN track
              THEN [popularity |-> track.popularity,
                    external_url |-> track.external_urls.spotify,
                    album |-> track.album.name,
                    release_date |-> track.album.release_date]
              ELSE Exception
         ELSE None

\* variant: the except clause of lines 64-66 left out
get_spotify_data_no_except(sp_search, artist_name, track_title) ==
    get_spotify_data_try(sp_search, artist_name, track_title)

\* variant: the dict cut down to popularity and url
get_spotify_data_two_fields(sp_search, artist_name, track_title) ==
    LET r == get_spotify_data_try(sp_search, artist_name, track_title) IN
    IF r = Exception \/ r = None THEN None
    ELSE [popularity |-> r.popularity, url |-> r.external_url]

get_spotify_data(sp_search, artist_name, track_title) ==
    LET r == get_spotify_data_try(sp_search, artist_name, track_title) IN
    IF r = Exception THEN None ELSE r

----------------------------------------------------------------------------
(* get_youtube_music_data, lines 68-112 *)

MusicUrl(videoId) == "https://music.youtube.com/watch?v=" \o videoId

\* variant: line 98 with the music-site URL of line 93
VideoUrlAsMusic(videoId) == MusicUrl(videoId)

VideoUrl(videoId) == "https://www.youtube.com/watch?v=" \o videoId

\* lines 90 and 95: an exact match of the given result type
ExactMatch(result, resultType, artist_name, track_title) ==
    /\ GetEq(result, "resultType", resultType)
    /\ "artists" \in DOMAIN result
    /\ Len(result.artists) > 0
    /\ GetEq(result.artists[1], "name", artist_name)
    /\ GetEq(result, "title", track_title)

\* line 102
FallbackEligible(result) ==
    GetEq(result, "resultType", "song") /\ Truthy(Get(result, "views"))

\* the returned dict, lines 91-94, 96-99, 103-106; result['videoId'] may raise
YtEntry(result, url) ==
    IF "videoId" \in DOMAIN result
    THEN [views |-> Get(result, "views"), url |-> url]
    ELSE Exception

Min(S) == CHOOSE i \in S : \A j \in S : i <= j

\* the first loop, lines 89-99: 0 when it returns nothing
ExactLoopIndex(results, artist_name, track_title) ==
    LET S == { i \in 1..Len(results) :
                 \/ ExactMatch(results[i], "song", artist_name, track_title)
                 \/ ExactMatch(results[i], "video", artist_name, track_title) }
    IN IF S = {} THEN 0 ELSE Min(S)

\* the second loop, lines 101-106: 0 when it returns nothing
FallbackLoopIndex(results) ==
    LET S == { i \in 1..Len(results) : FallbackEligible(results[i]) }
    IN IF S = {} THEN 0 ELSE Min(S)

\* variant: the loop of lines 101-106 run before that of lines 89-99
SelectFallbackFirst(results, artist_name, track_title) ==
    LET e == ExactLoopIndex(results, artist_name, track_title)
        f == FallbackLoopIndex(results)
    IN IF f # 0 THEN YtEntry(results[f], MusicUrl(results[f].videoId))
       ELSE IF e # 0
       THEN IF ExactMatch(results[e], "song", artist_name, track_title)
            THEN YtEntry(results[e], MusicUrl(results[e].videoId))
            ELSE YtEntry(results[e], VideoUrl(results[e].videoId))
       ELSE None

\* variant: one scan per tier, songs before videos
SelectSongsFirst(results, artist_name, track_title) ==
    LET S == { i \in 1..Len(results) :
                 ExactMatch(results[i], "song", artist_name, track_title) }
        V == { i \in 1..Len(results) :
                 ExactMatch(results[i], "video", artist_name, track_title) }
        f == FallbackLoopIndex(results)
    IN IF S # {} THEN YtEntry(results[Min(S)], MusicUrl(results[Min(S)].videoId))
       ELSE IF V # {} THEN YtEntry(results[Min(V)], VideoUrl(results[Min(V)].videoId))
       ELSE IF f # 0 THEN YtEntry(results[f], MusicUrl(results[f].videoId))
       ELSE None

\* lines 87-109, given the list that self.yt.search returned
Select(results, artist_name, track_title) ==
    LET e == ExactLoopIndex(results, artist_name, track_title)
        f == FallbackLoopIndex(results)
    IN IF Len(results) = 0 THEN None
       ELSE IF e # 0
       THEN IF ExactMatch(results[e], "song", artist_name, track_title)
            THEN YtEntry(results[e], MusicUrl(results[e].videoId))
            ELSE YtEntry(results[e], VideoUrl(results[e].videoId))
       ELSE IF f # 0 THEN YtEntry(results[f], MusicUrl(results[f].videoId))
       ELSE None

\* the body of the try, lines 83-109: Exception when it raises
get_youtube_music_data_try(yt_search, artist_name, track_title) ==
    IF yt_search = Raise THEN Exception
    ELSE Select(yt_search.return, artist_name, track_title)

\* lines 79-80: without a client nothing is searched
yt_search_issued(self_yt) == self_yt # None

get_youtube_music_data(self_yt, yt_search, artist_name, track_title) ==
    IF ~yt_search_issued(self_yt) THEN None
    ELSE LET r == get_youtube_music_data_try(yt_search, artist_name, track_title) IN
         IF r = Exception THEN None ELSE r

----------------------------------------------------------------------------
(* get_streaming_data, lines 114-150 *)

\* lines 125-130
new_data(artist_name, track_title) ==
    [artist |-> artist_name, title |-> track_title,
     spotify |-> EmptyDict, youtube_music |-> EmptyDict]

\* lines 135-140, on the record d built so far
fetch_spotify(d, sp_search, artist_name, track_title) ==
    LET spotify_data == get_spotify_data(sp_search, artist_name, track_title) IN
    IF d = Exception \/ spotify_data = Exception THEN Exception
    ELSE IF Truthy(spotify_data) THEN [d EXCEPT !.spotify = spotify_data]
    ELSE d

\* variant: data rebuilt when the youtube_music entry is stored
fetch_youtube_clobber(d, self_yt, yt_search, artist_name, track_title) ==
    LET youtube_music_data ==
            get_youtube_music_data(self_yt, yt_search, artist_name, track_title) IN
    IF d = Exception \/ youtube_music_data = Exception THEN Exception
    ELSE IF Truthy(youtube_music_data)
         THEN [new_data(artist_name, track_title)
                 EXCEPT !.youtube_music = youtube_music_data]
    ELSE d

\* lines 143-148, on the record d built so far
fetch_youtube(d, self_yt, yt_search, artist_name, track_title) ==
    LET youtube_music_data ==
            get_youtube_music_data(self_yt, yt_search, artist_name, track_title) IN
    IF d = Exception \/ youtube_music_data = Exception THEN Exception
    ELSE IF Truthy(youtube_music_data)
         THEN [d EXCEPT !.youtube_music = youtube_music_data]
    ELSE d

get_streaming_data(self_yt, sp_search, yt_search, artist_name, track_title) ==
    fetch_youtube(
        fetch_spotify(new_data(artist_name, track_title),
                      sp_search, artist_name, track_title),
        self_yt, yt_search, artist_name, track_title)

----------------------------------------------------------------------------
(* The fetcher: the constructor, then calls of get_streaming_data *)

CallInputs == [artist |-> artist, title |-> title, spResp |-> spResp, ytResp |-> ytResp]

\* lines 8-36: self.yt is a client, or None when YTMusic(...) raised
InitFetcher ==
    /\ yt \in {YTMusic, None}
    /\ ytInitFailed = (yt = None)
    /\ pc = "call"
    /\ spData = None
    /\ ytData = None
    /\ ytSearched = FALSE
    /\ data = None
    /\ first = None
    /\ intervened = FALSE

\* a fetcher and the inputs of one call
Init ==
    /\ InitFetcher
    /\ \E q \in Queries : artist = q[1] /\ title = q[2]
    /\ spResp \in SpResponses
    /\ ytResp \in YtResponses

\* a fetcher and the inputs of the first of its calls
InitSeq ==
    /\ InitFetcher
    /\ \E q \in SeqQueries : artist = q[1] /\ title = q[2]
    /\ spResp \in SeqSpResponses
    /\ ytResp \in SeqYtResponses

\* variant: a call that sets up the YTMusic client again
CallRetryingInit ==
    /\ pc = "call"
    /\ pc' = "return"
    /\ yt' = YTMusic
    /\ spData' = get_spotify_data(spResp, artist, title)
    /\ ytData' = get_youtube_music_data(yt', ytResp, artist, title)
    /\ ytSearched' = yt_search_issued(yt')
    /\ data' = get_streaming_data(yt', spResp, ytResp, artist, title)
    /\ first' = IF first = None THEN [inputs |-> CallInputs, data |-> data'] ELSE first
    /\ intervened' = (intervened \/ (first # None /\ first.inputs # CallInputs))
    /\ UNCHANGED <<ytInitFailed, artist, title, spResp, ytResp>>

\* variant: a call that drops the YTMusic client once its search raised
CallDisablingYt ==
    /\ pc = "call"
    /\ pc' = "return"
    /\ yt' = IF yt # None /\ ytResp = Raise THEN None ELSE yt
    /\ spData' = get_spotify_data(spResp, artist, title)
    /\ ytData' = get_youtube_music_data(yt, ytResp, artist, title)
    /\ ytSearched' = yt_search_issued(yt)
    /\ data' = get_streaming_data(yt, spResp, ytResp, artist, title)
    /\ first' = IF first = None THEN [inputs |-> CallInputs, data |-> data'] ELSE first
    /\ intervened' = (intervened \/ (first # None /\ first.inputs # CallInputs))
    /\ UNCHANGED <<ytInitFailed, artist, title, spResp, ytResp>>

\* one call of get_streaming_data(artist, title), lines 114-150
Call ==
    /\ pc = "call"
    /\ pc' = "return"
    /\ spData' = get_spotify_data(spResp, artist, title)
    /\ ytData' = get_youtube_music_data(yt, ytResp, artist, title)
    /\ ytSearched' = yt_search_issued(yt)
    /\ data' = get_streaming_data(yt, spResp, ytResp, artist, title)
    /\ first' = IF first = None THEN [inputs |-> CallInputs, data |-> data'] ELSE first
    /\ intervened' = (intervened \/ (first # None /\ first.inputs # CallInputs))
    /\ UNCHANGED <<yt, ytInitFailed, artist, title, spResp, ytResp>>

\* the caller goes on to its next query, lines 185-186
NextQuery ==
    /\ pc = "return"
    /\ data # Exception
    /\ pc' = "call"
    /\ \E q \in SeqQueries : artist' = q[1] /\ title' = q[2]
    /\ spResp' \in SeqSpResponses
    /\ ytResp' \in SeqYtResponses
    /\ spData' = None
    /\ ytData' = None
    /\ ytSearched' = FALSE
    /\ data' = None
    /\ UNCHANGED <<yt, ytInitFailed, first, intervened>>

Next == Call

Spec == Init /\ [][Next]_vars

NextSeq == Call \/ NextQuery

SpecSeq == InitSeq /\ [][NextSeq]_vars

----------------------------------------------------------------------------
(* The properties.  What the statements call an exact match, a fallback-   *)
(* eligible song and an entry is written out here on its own, not taken     *)
(* from the definitions above.                                              *)

Returned == pc = "return"

\* backend B was searched and answered with a list
YtAnswered == yt # None /\ ytResp # Raise

Results == ytResp.return

IsExact(r, type) ==
    /\ r.resultType = type
    /\ Len(r.artists) >= 1
    /\ r.artists[1].name = artist
    /\ r.title = title

ExactSongs == { i \in 1..Len(Results) : IsExact(Results[i], "song") }

ExactVideos == { i \in 1..Len(Results) : IsExact(Results[i], "video") }

\* songs that carry a views count, whatever its value
SongsWithViews ==
    { i \in 1..Len(Results) :
        Results[i].resultType = "song" /\ "views" \in DOMAIN Results[i] }

\* songs with a views count that do not match the query
UnrelatedFallbackSongs ==
    { i \in 1..Len(Results) :
        /\ Results[i].resultType = "song"
        /\ "views" \in DOMAIN Results[i]
        /\ ~IsExact(Results[i], "song") }

ViewsOf(r) == IF "views" \in DOMAIN r THEN r.views ELSE None

MusicEntry(r) ==
    [views |-> ViewsOf(r), url |-> "https://music.youtube.com/watch?v=" \o r.videoId]

VideoEntry(r) ==
    [views |-> ViewsOf(r), url |-> "https://www.youtube.com/watch?v=" \o r.videoId]

ExactEntry(i) ==
    IF i \in ExactSongs THEN MusicEntry(Results[i]) ELSE VideoEntry(Results[i])

SpItems ==
    IF spResp = Raise \/ spResp.return = None THEN <<>> ELSE spResp.return.tracks.items

BothFailedRecord ==
    [artist |-> artist, title |-> title, spotify |-> EmptyDict,
     youtube_music |-> EmptyDict]

\* C1: get_streaming_data never raises; it returns a record carrying the
\* query, in which the entry of a backend that failed (its search raised, or
\* backend B was never initialized) is the empty dict; when both fail the
\* record is exactly {artist, title, spotify: {}, youtube_music: {}}.
C1_NeverRaises ==
    Returned =>
        /\ data # Exception
        /\ data.artist = artist
        /\ data.title = title
        /\ DOMAIN data = {"artist", "title", "spotify", "youtube_music"}
        /\ (spResp = Raise => data.spotify = EmptyDict)
        /\ (ytResp = Raise \/ yt = None => data.youtube_music = EmptyDict)
        /\ (spResp = Raise /\ (ytResp = Raise \/ yt = None) => data = BothFailedRecord)

C1_Witness ==
    /\ Returned
    /\ spResp = Raise
    /\ yt # None
    /\ ytResp = Raise
    /\ data = BothFailedRecord

\* C2 as stated: whenever the list holds an exact song match, the entry of
\* the first exact song match is returned, with the music-site URL, wherever
\* an exact video match stands.
C2_Original ==
    Returned /\ YtAnswered /\ ExactSongs # {} =>
        ytData = MusicEntry(Results[Min(ExactSongs)])

\* C2 amended: whenever the list holds an exact song match, the entry of the
\* first exact match of either type in list order is returned: the first
\* exact song match with the music-site URL when no exact video match stands
\* before it, else the first exact video match with the video-site URL.
C2_FirstExactMatch ==
    Returned /\ YtAnswered /\ ExactSongs # {} =>
        /\ ytData = ExactEntry(Min(ExactSongs \cup ExactVideos))
        /\ (\A v \in ExactVideos : Min(ExactSongs) < v) =>
               ytData = MusicEntry(Results[Min(ExactSongs)])

C2_Witness ==
    /\ Returned
    /\ YtAnswered
    /\ ExactSongs # {}
    /\ ExactVideos # {}
    /\ Min(ExactVideos) < Min(ExactSongs)
    /\ ytData = VideoEntry(Results[Min(ExactVideos)])

HasUrl(e) == "url" \in DOMAIN e \/ "external_url" \in DOMAIN e

EntryComplete(e, metric) ==
    e = EmptyDict \/ (metric \in DOMAIN e /\ e[metric] # None /\ HasUrl(e))

\* C4: in every returned record each backend entry is empty, or holds both a
\* metric that is not None (popularity, views) and a URL.
C4_EntryInvariant ==
    Returned /\ data # Exception =>
        /\ EntryComplete(data.spotify, "popularity")
        /\ EntryComplete(data.youtube_music, "views")

\* C5: with no exact song or video match and a song whose views count is
\* present (0 included), the entry of the first such song is returned, with
\* the music-site URL.
C5_Fallback ==
    Returned /\ YtAnswered /\ ExactSongs = {} /\ ExactVideos = {}
             /\ SongsWithViews # {} =>
        ytData = MusicEntry(Results[Min(SongsWithViews)])

\* C6 as stated: with an exact song match and an unrelated fallback-eligible
\* song in the list, the entry of the exact song match is returned.
C6_Original ==
    Returned /\ YtAnswered /\ ExactSongs # {} /\ UnrelatedFallbackSongs # {} =>
        ytData = MusicEntry(Results[Min(ExactSongs)])

\* C6 amended: with an exact song match and an unrelated fallback-eligible
\* song in the list, wherever the latter stands, the entry returned is that
\* of an exact match (the first exact song match, or an exact video match
\* that stands before it) and never that of the fallback-eligible song.
C6_ExactBeatsFallback ==
    Returned /\ YtAnswered /\ ExactSongs # {} /\ UnrelatedFallbackSongs # {} =>
        /\ \E i \in ExactSongs \cup ExactVideos :
              /\ i <= Min(ExactSongs)
              /\ ytData = ExactEntry(i)
        /\ \A f \in UnrelatedFallbackSongs : ytData # MusicEntry(Results[f])

C6_Witness ==
    /\ Returned
    /\ YtAnswered
    /\ ExactSongs # {}
    /\ UnrelatedFallbackSongs # {}
    /\ Min(UnrelatedFallbackSongs) < Min(ExactSongs)
    /\ Results[Min(UnrelatedFallbackSongs)].views = PyInt(7)
    /\ ytData = MusicEntry(Results[Min(ExactSongs)])

\* C7: with an exact video match and no exact song match, the entry of the
\* first exact video match is returned, its URL on the video site, also when
\* fallback-eligible songs are in the list.
C7_VideoTier ==
    Returned /\ YtAnswered /\ ExactSongs = {} /\ ExactVideos # {} =>
        ytData = VideoEntry(Results[Min(ExactVideos)])

C7_Witness ==
    /\ Returned
    /\ YtAnswered
    /\ ExactSongs = {}
    /\ ExactVideos # {}
    /\ UnrelatedFallbackSongs # {}
    /\ Min(UnrelatedFallbackSongs) < Min(ExactVideos)
    /\ Results[Min(UnrelatedFallbackSongs)].views = PyInt(7)
    /\ ytData = VideoEntry(Results[Min(ExactVideos)])

SpotifyEntryAlone ==
    get_streaming_data(yt, spResp, Raise, artist, title).spotify

\* C8: once the constructor failed to initialize backend B, self.yt stays
\* None, and every call, whatever the queries before it, returns an empty
\* backend B entry without searching backend B, while its backend A entry is
\* what backend A's answer alone gives.
C8_UnavailableForGood ==
    ytInitFailed =>
        /\ yt = None
        /\ Returned =>
              /\ ytData = None
              /\ ~ytSearched
              /\ data # Exception
              /\ data.youtube_music = EmptyDict
              /\ data.spotify = SpotifyEntryAlone

C8_Witness ==
    /\ ytInitFailed
    /\ Returned
    /\ intervened
    /\ ytResp # Raise
    /\ ExactSongs # {}
    /\ data.youtube_music = EmptyDict
    /\ data.spotify # EmptyDict

C10_Idempotent ==
    Returned /\ first # None /\ first.inputs = CallInputs => data = first.data

C10_Witness ==
    /\ Returned
    /\ intervened
    /\ first.inputs = CallInputs
    /\ yt # None
    /\ data.youtube_music # EmptyDict
    /\ data = first.data

====
